---- MODULE Spec2Model ----
(***************************************************************************)
(* State-machine model of src/app.py: the PPE attendance service.          *)
(* The database tables (workers, attendance) and the ppe-images bucket are *)
(* the state; every Flask handler is one action.  Strings are TLA+ strings *)
(* handled with Len, \o and SubSeq, so that Python's str methods (in,      *)
(* replace, strip, upper, split, int(), str()) are computed, not assumed.  *)
(***************************************************************************)
EXTENDS Integers, Sequences, FiniteSets, TLC

VARIABLES workers, attendance, storage, clock, nreg, last, pc, snap

vars == <<workers, attendance, storage, clock, nreg, last, pc, snap>>

(***************************************************************************)
(* Bounds of the model.                                                    *)
(***************************************************************************)
MaxRequests == 2
MaxRegs == 2
NumProcs == 2

(***************************************************************************)
(* Python string primitives.                                               *)
(***************************************************************************)
Char(s, i) == SubSeq(s, i, i)

Whitespace == {" ", "\t", "\n"}

Digits == "0123456789"

Lower == "abcdefghijklmnopqrstuvwxyz"

Upper == "ABCDEFGHIJKLMNOPQRSTUVWXYZ"

IndexIn(alphabet, c) ==
  IF \E i \in 1..Len(alphabet) : Char(alphabet, i) = c
  THEN CHOOSE i \in 1..Len(alphabet) : Char(alphabet, i) = c
  ELSE 0

\* sub in s
Contains(sub, s) ==
  \E i \in 1..(Len(s) - Len(sub) + 1) : SubSeq(s, i, i + Len(sub) - 1) = sub

\* s.find(sub), 1-based, 0 when absent
Find(sub, s) ==
  IF Contains(sub, s)
  THEN CHOOSE i \in 1..(Len(s) - Len(sub) + 1) :
         /\ SubSeq(s, i, i + Len(sub) - 1) = sub
         /\ \A j \in 1..(i - 1) : SubSeq(s, j, j + Len(sub) - 1) # sub
  ELSE 0

RECURSIVE PyReplace(_, _, _)
\* s.replace(old, new) for a non-empty old: every non-overlapping occurrence, left to right
PyReplace(s, old, new) ==
  LET i == Find(old, s) IN
  IF i = 0 THEN s
  ELSE SubSeq(s, 1, i - 1) \o new \o PyReplace(SubSeq(s, i + Len(old), Len(s)), old, new)

RECURSIVE LStrip(_)
LStrip(s) ==
  IF Len(s) > 0 /\ Char(s, 1) \in Whitespace THEN LStrip(SubSeq(s, 2, Len(s))) ELSE s

RECURSIVE RStrip(_)
RStrip(s) ==
  IF Len(s) > 0 /\ Char(s, Len(s)) \in Whitespace THEN RStrip(SubSeq(s, 1, Len(s) - 1)) ELSE s

\* s.strip()
PyStrip(s) == RStrip(LStrip(s))

RECURSIVE PyUpper(_)
\* s.upper()
PyUpper(s) ==
  IF Len(s) = 0 THEN ""
  ELSE LET c == Char(s, 1)
           k == IndexIn(Lower, c)
       IN (IF k = 0 THEN c ELSE Char(Upper, k)) \o PyUpper(SubSeq(s, 2, Len(s)))

RECURSIVE PySplit(_, _)
\* s.split(sep) for a one-character sep
PySplit(s, sep) ==
  LET i == Find(sep, s) IN
  IF i = 0 THEN <<s>>
  ELSE <<SubSeq(s, 1, i - 1)>> \o PySplit(SubSeq(s, i + 1, Len(s)), sep)

RECURSIVE StrNat(_)
StrNat(n) ==
  IF n < 10 THEN Char(Digits, n + 1)
  ELSE StrNat(n \div 10) \o Char(Digits, (n % 10) + 1)

\* str(n) for an int n
PyStr(n) == IF n < 0 THEN "-" \o StrNat(0 - n) ELSE StrNat(n)

RECURSIVE DigitsValue(_, _)
DigitsValue(s, acc) ==
  IF Len(s) = 0 THEN acc
  ELSE IF Char(s, 1) = "_" THEN DigitsValue(SubSeq(s, 2, Len(s)), acc)
  ELSE DigitsValue(SubSeq(s, 2, Len(s)), 10 * acc + (IndexIn(Digits, Char(s, 1)) - 1))

\* the digit part of an int literal: digits, single underscores between digits only
DigitPartOk(d) ==
  /\ Len(d) > 0
  /\ \A i \in 1..Len(d) : Char(d, i) = "_" \/ IndexIn(Digits, Char(d, i)) > 0
  /\ Char(d, 1) # "_"
  /\ Char(d, Len(d)) # "_"
  /\ \A i \in 1..(Len(d) - 1) : ~(Char(d, i) = "_" /\ Char(d, i + 1) = "_")

\* int(s): [ok |-> FALSE] stands for the ValueError
PyInt(s) ==
  LET t == PyStrip(s)
      signed == Len(t) > 0 /\ Char(t, 1) \in {"+", "-"}
      d == IF signed THEN SubSeq(t, 2, Len(t)) ELSE t
  IN IF DigitPartOk(d)
     THEN [ok |-> TRUE,
           val |-> IF signed /\ Char(t, 1) = "-" THEN 0 - DigitsValue(d, 0) ELSE DigitsValue(d, 0)]
     ELSE [ok |-> FALSE, val |-> 0]

(***************************************************************************)
(* Inputs of the requests and of the environment.                          *)
(***************************************************************************)
\* marker of a JSON field or query argument the request does not carry
Absent == "<absent>"

\* JSON null
Null == "null"

\* datetime.now().date().isoformat(): the model runs within one server-local day;
\* other dates enter through manual-mark's date field and the date query argument
Today == "2026-01-05"

OtherDay == "2026-01-04"

Procs == 1..NumProcs

\* worker ids the kiosk and the admin panel send
RequestIds == {"1001", "1002"}

Names == {"", "Asha"}

\* data URLs: a well-formed one, one without a comma, one with a truncated payload
GoodImage == "data:image/jpeg;base64,QUJD"

Images == {GoodImage, "QUJD", "data:image/jpeg;base64,QUJ"}

\* what model.generate_content does: a reply text, a reply without text, or an exception
Replied(t) == [kind |-> "text", text |-> t]

GeminiOutcomes ==
  {Replied(t) :
     t \in {"PPE_OK", "ppe_ok\n", "PPE_MISSING: [VEST]", " ppe_missing: [helmet, vest] ",
            "PPE_MISSING:", "[GLOVES] PPE_MISSING: PPE_MISSING: [BOOTS]", "NO_WORKER",
            "No_worker. PPE_OK otherwise", "PPE_MISSING: [VEST] no_worker", "", "unsure"}}
  \cup {[kind |-> "none", text |-> ""], [kind |-> "raise", text |-> ""]}

\* one outcome per branch of the decision
FewOutcomes == {Replied("PPE_OK"), Replied("PPE_MISSING: [VEST]"), Replied("NO_WORKER")}

\* status and date fields of the admin panel's manual-mark requests
Mark(status, date) == [status |-> status, date |-> date]

MarkInputs ==
  {Mark(Absent, Absent), Mark("ABSENT", Absent), Mark("PRESENT", Today),
   Mark("LATE", Today), Mark("PRESENT", OtherDay), Mark("ABSENT", OtherDay)}

FewMarkInputs == {Mark(Absent, Absent), Mark("ABSENT", OtherDay)}

\* contents of the workers table before the service starts (rows entered by hand included)
TwoWorkers == <<[worker_id |-> "1001", name |-> "Asha"], [worker_id |-> "1002", name |-> "Bo"]>>

PreExisting ==
  { <<>>,
    TwoWorkers,
    <<[worker_id |-> "1001", name |-> "Asha"], [worker_id |-> "abc", name |-> "Bo"],
      [worker_id |-> "1005", name |-> "Chen"]>>,
    <<[worker_id |-> "5", name |-> "Dev"]>>,
    <<[worker_id |-> "abc", name |-> "Bo"], [worker_id |-> "-3", name |-> "Eli"]>>,
    <<[worker_id |-> " 1_002 ", name |-> "Fay"], [worker_id |-> "1001", name |-> "Asha"]>>,
    <<[worker_id |-> "abc", name |-> "Bo"]>> }

(***************************************************************************)
(* The record of the request handled last: its inputs, the handler's       *)
(* locals the claims speak about, and the JSON response.                   *)
(***************************************************************************)
NoReq ==
  [op |-> "none", status |-> "", code |-> 0, worker_id |-> "", name |-> "",
   worker_name |-> "", ai_result |-> "", raised |-> FALSE, missing |-> "",
   file_name |-> "", fail |-> "", date |-> "", at |-> -1, present |-> 0, absent |-> 0,
   total_workers |-> 0, deleted |-> 0, res_data |-> <<>>, logs |-> <<>>]

Req(fields) == fields @@ NoReq

Error(op, code) == Req([op |-> op, status |-> "ERROR", code |-> code])

(***************************************************************************)
(* Database and storage calls.                                             *)
(***************************************************************************)
\* table("workers").select(...).eq("worker_id", worker_id)
SelectWorkers(wk, worker_id) == SelectSeq(wk, LAMBDA w : w.worker_id = worker_id)

\* table("workers").delete().eq("worker_id", worker_id)
DeleteWorkers(wk, worker_id) == SelectSeq(wk, LAMBDA w : w.worker_id # worker_id)

\* the cascade filtering on a column that never matches
DeleteAttendance_Nothing(att, worker_id) == {r \in att : r.worker_id # worker_id \/ r.date # worker_id}

\* table("attendance").delete().eq("worker_id", worker_id)
DeleteAttendance(att, worker_id) == {r \in att : r.worker_id # worker_id}

\* an upsert on worker_id instead of an insert
InsertAttendance_Upsert(att, row, now) ==
  {r \in att : r.worker_id # row.worker_id} \cup {row @@ [created_at |-> now]}

\* table("attendance").insert(row): created_at is assigned by the storage layer
InsertAttendance(att, row, now) == att \cup {row @@ [created_at |-> now]}

\* table("attendance").select(...).eq("date", target_date)
SelectByDate(att, target_date) == {r \in att : r.date = target_date}

RECURSIVE OrderByCreatedAt(_)
\* .order("created_at")
OrderByCreatedAt(rows) ==
  IF rows = {} THEN <<>>
  ELSE LET first == CHOOSE r \in rows : \A q \in rows : r.created_at <= q.created_at
       IN <<first>> \o OrderByCreatedAt(rows \ {first})

\* .order("created_at", desc=True)
OrderByCreatedAtDesc(rows) ==
  LET s == OrderByCreatedAt(rows) IN [i \in 1..Len(s) |-> s[Len(s) + 1 - i]]

(***************************************************************************)
(* precheck                                                                *)
(***************************************************************************)
PrecheckResponse(wk, worker_id) ==
  IF worker_id = "" \/ worker_id = Absent
  THEN [status |-> "ERROR", code |-> 400, worker_name |-> ""]
  ELSE LET data == SelectWorkers(wk, worker_id) IN
       IF data = <<>>
       THEN [status |-> "NOT_FOUND", code |-> 404, worker_name |-> ""]
       ELSE [status |-> "SUCCESS", code |-> 200, worker_name |-> data[1].name]

precheck(worker_id, dbfails) ==
  /\ last' = IF dbfails /\ worker_id # "" /\ worker_id # Absent
             THEN Error("precheck", 500)
             ELSE Req([op |-> "precheck", worker_id |-> worker_id] @@ PrecheckResponse(workers, worker_id))
  /\ UNCHANGED <<workers, attendance, storage, clock, nreg, pc, snap>>

(***************************************************************************)
(* verify_ppe_with_gemini and verify                                       *)
(***************************************************************************)
\* the except clause missing its sentinel: the failed call is handled as an empty reply
verify_ppe_with_gemini_no_sentinel(g) ==
  PyUpper(PyStrip(IF g.kind = "text" THEN g.text ELSE ""))

verify_ppe_with_gemini(g) ==
  IF g.kind = "raise" THEN "ERROR_GEMINI"
  ELSE PyUpper(PyStrip(IF g.kind = "none" THEN "" ELSE g.text))

\* image_data.split(",")[1] and base64.b64decode: ok is FALSE when either raises
DecodeImage(image_data) ==
  LET parts == PySplit(image_data, ",") IN
  IF image_data = Absent \/ Len(parts) < 2 THEN [ok |-> FALSE, raw_b64 |-> ""]
  ELSE [ok |-> Len(parts[2]) % 4 = 0, raw_b64 |-> parts[2]]

FileName(mode, worker_id, uuid) == mode \o "_" \o worker_id \o "_" \o uuid \o ".jpg"

\* line 92 without its .strip()
VerifyDecision_NoStrip(ai_result) ==
  IF Contains("NO_WORKER", ai_result)
  THEN [retry |-> TRUE, status |-> "RETRY", missing |-> ""]
  ELSE LET status == IF Contains("PPE_OK", ai_result) THEN "PRESENT" ELSE "ABSENT" IN
       [retry |-> FALSE, status |-> status,
        missing |-> IF status = "ABSENT" THEN PyReplace(ai_result, "PPE_MISSING:", "") ELSE ""]

\* line 92 without its condition on the status
VerifyDecision_MissingAlways(ai_result) ==
  IF Contains("NO_WORKER", ai_result)
  THEN [retry |-> TRUE, status |-> "RETRY", missing |-> ""]
  ELSE [retry |-> FALSE,
        status |-> IF Contains("PPE_OK", ai_result) THEN "PRESENT" ELSE "ABSENT",
        missing |-> PyStrip(PyReplace(ai_result, "PPE_MISSING:", ""))]

\* lines 88-92: the outcome of a classifier reply
VerifyDecision(ai_result) ==
  IF Contains("NO_WORKER", ai_result)
  THEN [retry |-> TRUE, status |-> "RETRY", missing |-> ""]
  ELSE LET status == IF Contains("PPE_OK", ai_result) THEN "PRESENT" ELSE "ABSENT" IN
       [retry |-> FALSE, status |-> status,
        missing |-> IF status = "ABSENT"
                    THEN PyStrip(PyReplace(ai_result, "PPE_MISSING:", "")) ELSE ""]

VerifyRow(worker_id, d, date) ==
  [worker_id |-> worker_id, attendance_status |-> d.status,
   ppe_status |-> IF d.status = "PRESENT" THEN "PASSED" ELSE "FAILED",
   ppe_missing_items |-> d.missing, ppe_image_url |-> Null, date |-> date]

\* the classifier's reply and the decision taken on it, per outcome of the external call
Classified ==
  [g \in GeminiOutcomes |->
     LET ai_result == verify_ppe_with_gemini(g) IN
     [ai_result |-> ai_result, raised |-> g.kind = "raise", d |-> VerifyDecision(ai_result)]]

Decoded == [i \in Images |-> DecodeImage(i)]

\* the external call of the handler that raises, if any
VerifyFailPoints == {"none", "upload", "remove", "insert", "select"}

\* the runs of the handler that differ: a failure before the classifier is called
\* hides the classifier's outcome
VerifyRuns(images, outcomes) ==
  {[image |-> i, g |-> Replied(""), fail |-> "none"] : i \in {j \in images : ~Decoded[j].ok}}
  \cup {[image |-> GoodImage, g |-> Replied(""), fail |-> "upload"]}
  \cup {[image |-> GoodImage, g |-> g, fail |-> f] :
          g \in outcomes, f \in VerifyFailPoints \ {"upload"}}

verify(worker_id, run) ==
  LET file_name == FileName("auto", worker_id, PyStr(clock))
      data == SelectWorkers(workers, worker_id)
      c == Classified[run.g]
      base == [op |-> "verify", worker_id |-> worker_id, at |-> clock]
      ran == base @@ [file_name |-> file_name, fail |-> run.fail, ai_result |-> c.ai_result,
                      raised |-> c.raised]
  IN
  /\ clock < MaxRequests
  /\ UNCHANGED <<workers, nreg, pc, snap>>
  /\ IF ~Decoded[run.image].ok \/ run.fail = "upload"
     THEN /\ last' = Req(base @@ [status |-> "ERROR", code |-> 500])
          /\ UNCHANGED <<attendance, storage, clock>>
     ELSE IF run.fail = "remove"
     THEN /\ last' = Req(ran @@ [status |-> "ERROR", code |-> 500])
          /\ storage' = storage \cup {file_name}
          /\ clock' = clock + 1
          /\ UNCHANGED attendance
     ELSE IF c.d.retry
     THEN /\ last' = Req(ran @@ [status |-> "RETRY", code |-> 200])
          /\ UNCHANGED <<attendance, storage, clock>>
     ELSE IF run.fail = "insert"
     THEN /\ last' = Req(ran @@ [status |-> "ERROR", code |-> 500])
          /\ UNCHANGED <<attendance, storage, clock>>
     ELSE /\ attendance' = InsertAttendance(attendance, VerifyRow(worker_id, c.d, Today), clock)
          /\ clock' = clock + 1
          /\ UNCHANGED storage
          /\ last' = IF run.fail = "select"
                     THEN Req(ran @@ [status |-> "ERROR", code |-> 500])
                     ELSE Req(ran @@ [status |-> c.d.status, code |-> 200,
                                      missing |-> c.d.missing,
                                      worker_name |-> IF data # <<>> THEN data[1].name
                                                      ELSE "Worker"])

(***************************************************************************)
(* manual_upload                                                           *)
(***************************************************************************)
ManualUploadRow(worker_id, date) ==
  [worker_id |-> worker_id, attendance_status |-> "PRESENT", ppe_status |-> "MANUAL_VERIFIED",
   ppe_missing_items |-> "Manual Override Confirmed", ppe_image_url |-> Null, date |-> date]

ManualFailPoints == {"none", "upload", "insert", "remove"}

manual_upload(worker_id, image_data, fail) ==
  LET file_name == FileName("manual", worker_id, PyStr(clock))
      base == [op |-> "manual_upload", worker_id |-> worker_id, at |-> clock]
      ran == base @@ [file_name |-> file_name, fail |-> fail]
  IN
  /\ clock < MaxRequests
  /\ UNCHANGED <<workers, nreg, pc, snap>>
  /\ IF ~Decoded[image_data].ok \/ fail = "upload"
     THEN /\ last' = Req(base @@ [status |-> "ERROR", code |-> 500])
          /\ UNCHANGED <<attendance, storage, clock>>
     ELSE IF fail = "insert"
     THEN /\ last' = Req(ran @@ [status |-> "ERROR", code |-> 500])
          /\ storage' = storage \cup {file_name}
          /\ clock' = clock + 1
          /\ UNCHANGED attendance
     ELSE /\ attendance' = InsertAttendance(attendance, ManualUploadRow(worker_id, Today), clock)
          /\ clock' = clock + 1
          /\ storage' = IF fail = "remove" THEN storage \cup {file_name} ELSE storage
          /\ last' = IF fail = "remove"
                     THEN Req(ran @@ [status |-> "ERROR", code |-> 500])
                     ELSE Req(ran @@ [status |-> "SUCCESS", code |-> 200])

(***************************************************************************)
(* manual_mark                                                             *)
(***************************************************************************)
ManualMarkRow(worker_id, status, date_str) ==
  [worker_id |-> worker_id, attendance_status |-> status, ppe_status |-> "ADMIN_OVERRIDE",
   ppe_missing_items |-> "Marked " \o status \o " by Admin", ppe_image_url |-> Null,
   date |-> date_str]

manual_mark(worker_id, in, dbfails) ==
  LET status == IF in.status = Absent THEN "PRESENT" ELSE in.status
      date_str == IF in.date = Absent THEN Today ELSE in.date
      base == [op |-> "manual_mark", worker_id |-> worker_id, date |-> date_str, at |-> clock]
  IN
  /\ clock < MaxRequests
  /\ UNCHANGED <<workers, storage, nreg, pc, snap>>
  /\ IF dbfails
     THEN /\ last' = Req(base @@ [status |-> "ERROR", code |-> 500])
          /\ UNCHANGED <<attendance, clock>>
     ELSE /\ attendance' = InsertAttendance(attendance, ManualMarkRow(worker_id, status, date_str), clock)
          /\ clock' = clock + 1
          /\ last' = Req(base @@ [status |-> "SUCCESS", code |-> 200])

(***************************************************************************)
(* get_stats, get_logs, get_workers                                        *)
(***************************************************************************)
RECURSIVE LatestStatusMap(_, _)
\* lines 174-176: for l in logs.data: latest_status_map[l['worker_id']] = l['attendance_status']
LatestStatusMap(map, logs) ==
  IF logs = <<>> THEN map
  ELSE LET l == Head(logs) IN
       LatestStatusMap([w \in DOMAIN map \cup {l.worker_id} |->
                          IF w = l.worker_id THEN l.attendance_status ELSE map[w]],
                       Tail(logs))

CountValues(map, status) == Cardinality({w \in DOMAIN map : map[w] = status})

\* the rows read newest first, so that the earliest row of a worker wins
StatsResponse_FirstWins(att, wk, target_date) ==
  LET logs == OrderByCreatedAtDesc(SelectByDate(att, target_date))
      latest_status_map == LatestStatusMap([w \in {} |-> ""], logs)
  IN [present |-> CountValues(latest_status_map, "PRESENT"),
      absent |-> CountValues(latest_status_map, "ABSENT"),
      total_workers |-> Len(wk),
      date |-> target_date]

StatsResponse(att, wk, target_date) ==
  LET logs == OrderByCreatedAt(SelectByDate(att, target_date))
      latest_status_map == LatestStatusMap([w \in {} |-> ""], logs)
  IN [present |-> CountValues(latest_status_map, "PRESENT"),
      absent |-> CountValues(latest_status_map, "ABSENT"),
      total_workers |-> Len(wk),
      date |-> target_date]

get_stats(date_arg, dbfails) ==
  LET target_date == IF date_arg = Absent THEN Today ELSE date_arg IN
  /\ last' = IF dbfails THEN Error("get_stats", 500)
             ELSE Req([op |-> "get_stats", status |-> "ok", code |-> 200]
                      @@ StatsResponse(attendance, workers, target_date))
  /\ UNCHANGED <<workers, attendance, storage, clock, nreg, pc, snap>>

LogColumns(r) ==
  [worker_id |-> r.worker_id, attendance_status |-> r.attendance_status,
   ppe_status |-> r.ppe_status, ppe_missing_items |-> r.ppe_missing_items,
   created_at |-> r.created_at, date |-> r.date]

get_logs(date_arg, dbfails) ==
  LET rows == IF date_arg = Absent \/ date_arg = "" THEN attendance
              ELSE SelectByDate(attendance, date_arg)
      sorted == OrderByCreatedAtDesc(rows)
  IN
  /\ last' = IF dbfails THEN Error("get_logs", 500)
             ELSE Req([op |-> "get_logs", status |-> "ok", code |-> 200,
                       logs |-> [i \in 1..Len(sorted) |-> LogColumns(sorted[i])]])
  /\ UNCHANGED <<workers, attendance, storage, clock, nreg, pc, snap>>

get_workers(dbfails) ==
  /\ last' = IF dbfails THEN Error("get_workers", 500)
             ELSE Req([op |-> "get_workers", status |-> "ok", code |-> 200, res_data |-> workers])
  /\ UNCHANGED <<workers, attendance, storage, clock, nreg, pc, snap>>

(***************************************************************************)
(* add_worker, delete_worker                                               *)
(***************************************************************************)
RECURSIVE ParsedIds(_)
\* lines 226-231: the ids that int() accepts, in table order
ParsedIds(data) ==
  IF data = <<>> THEN <<>>
  ELSE LET n == PyInt(Head(data).worker_id) IN
       (IF n.ok THEN <<n.val>> ELSE <<>>) \o ParsedIds(Tail(data))

SeqMax(ids) == CHOOSE m \in {ids[i] : i \in DOMAIN ids} : \A i \in DOMAIN ids : ids[i] <= m

\* the next id taken from the number of rows instead of the largest id
AddWorkerNextId_Count(res_data) == 1001 + Len(res_data)

\* the largest id taken with the default as a floor
AddWorkerNextId_Floor(res_data) ==
  LET ids == ParsedIds(res_data) IN
  IF ids = <<>> \/ SeqMax(ids) < 1000 THEN 1001 ELSE SeqMax(ids) + 1

\* lines 224-233
AddWorkerNextId(res_data) ==
  IF res_data = <<>> THEN 1001
  ELSE LET ids == ParsedIds(res_data) IN
       IF ids = <<>> THEN 1001 ELSE SeqMax(ids) + 1

AddWorkerFailPoints == {"none", "select", "insert"}

add_worker(name, fail) ==
  LET next_id == AddWorkerNextId(workers) IN
  /\ nreg < MaxRegs
  /\ UNCHANGED <<attendance, storage, clock, pc, snap>>
  /\ IF name = "" \/ name = Absent
     THEN /\ last' = Error("add_worker", 400)
          /\ UNCHANGED <<workers, nreg>>
     ELSE IF fail # "none"
     THEN /\ last' = Error("add_worker", 500)
          /\ UNCHANGED <<workers, nreg>>
     ELSE /\ workers' = Append(workers, [worker_id |-> PyStr(next_id), name |-> name])
          /\ nreg' = nreg + 1
          /\ last' = Req([op |-> "add_worker", status |-> "ok", code |-> 200, name |-> name,
                          worker_id |-> PyStr(next_id), res_data |-> workers])

DeleteFailPoints == {"none", "attendance", "workers"}

delete_worker(worker_id, fail) ==
  LET base == [op |-> "delete_worker", worker_id |-> worker_id]
      kept == DeleteAttendance(attendance, worker_id)
  IN
  /\ UNCHANGED <<storage, clock, nreg, pc, snap>>
  /\ IF fail = "attendance"
     THEN /\ last' = Req(base @@ [status |-> "ERROR", code |-> 500])
          /\ UNCHANGED <<workers, attendance>>
     ELSE /\ attendance' = kept
          /\ IF fail = "workers"
             THEN /\ last' = Req(base @@ [status |-> "ERROR", code |-> 500])
                  /\ UNCHANGED workers
             ELSE /\ workers' = DeleteWorkers(workers, worker_id)
                  /\ last' = Req(base @@ [status |-> "ok", code |-> 200,
                                          deleted |-> Cardinality(attendance \ kept)])

(***************************************************************************)
(* add_worker under concurrent requests: the select of line 223 and the    *)
(* insert of line 235 are separate database calls, with nothing held       *)
(* between them.                                                           *)
(***************************************************************************)
InFlight == Cardinality({p \in Procs : pc[p] = "selected"})

AddWorkerSelect(p, name) ==
  /\ pc[p] = "idle"
  /\ name # "" /\ name # Absent
  /\ nreg + InFlight < MaxRegs
  /\ pc' = [pc EXCEPT ![p] = "selected"]
  /\ snap' = [snap EXCEPT ![p] = [data |-> workers, name |-> name]]
  /\ UNCHANGED <<workers, attendance, storage, clock, nreg, last>>

AddWorkerInsert(p) ==
  LET next_id == AddWorkerNextId(snap[p].data) IN
  /\ pc[p] = "selected"
  /\ workers' = Append(workers, [worker_id |-> PyStr(next_id), name |-> snap[p].name])
  /\ nreg' = nreg + 1
  /\ last' = Req([op |-> "add_worker", status |-> "ok", code |-> 200, name |-> snap[p].name,
                  worker_id |-> PyStr(next_id), res_data |-> snap[p].data])
  /\ pc' = [pc EXCEPT ![p] = "idle"]
  /\ snap' = [snap EXCEPT ![p] = [data |-> <<>>, name |-> ""]]
  /\ UNCHANGED <<attendance, storage, clock>>

(***************************************************************************)
(* Specifications.                                                         *)
(***************************************************************************)
InitWith(tables) ==
  /\ workers \in tables
  /\ attendance = {}
  /\ storage = {}
  /\ clock = 0
  /\ nreg = 0
  /\ last = NoReq
  /\ pc = [p \in Procs |-> "idle"]
  /\ snap = [p \in Procs |-> [data |-> <<>>, name |-> ""]]

\* The whole service: requests handled one at a time, each handler run to completion.
Init == InitWith({TwoWorkers})

Next ==
  \/ \E w \in {"1001", ""}, f \in BOOLEAN : precheck(w, f)
  \/ \E r \in VerifyRuns({GoodImage, "QUJD"}, FewOutcomes) :
       r.fail \in {"none", "upload", "insert"} /\ verify("1001", r)
  \/ \E i \in {GoodImage, "QUJD"}, f \in {"none", "insert"} : manual_upload("1001", i, f)
  \/ \E in \in FewMarkInputs, f \in BOOLEAN : manual_mark("1002", in, f)
  \/ get_stats(Absent, FALSE)
  \/ get_logs(Absent, FALSE)
  \/ get_workers(FALSE)
  \/ \E n \in Names, f \in AddWorkerFailPoints : add_worker(n, f)
  \/ \E w \in RequestIds, f \in DeleteFailPoints : delete_worker(w, f)

Spec == Init /\ [][Next]_vars

\* The three entry modes that write attendance, over every classifier outcome.
InitEntry == InitWith({<<[worker_id |-> "1001", name |-> "Asha"]>>})

NextEntry ==
  \/ \E w \in RequestIds, r \in VerifyRuns(Images, GeminiOutcomes) : verify(w, r)
  \/ \E i \in Images, f \in ManualFailPoints : manual_upload("1001", i, f)
  \/ \E in \in FewMarkInputs, f \in BOOLEAN : manual_mark("1002", in, f)

SpecEntry == InitEntry /\ [][NextEntry]_vars

\* The daily aggregation over the rows the admin panel and the kiosk write.
InitStats == InitWith({<<>>, TwoWorkers})

NextStats ==
  \/ \E w \in RequestIds, in \in MarkInputs : manual_mark(w, in, FALSE)
  \/ \E r \in VerifyRuns({GoodImage}, {Replied("PPE_OK"), [kind |-> "raise", text |-> ""]}) :
       verify("1001", r)
  \/ \E d \in {Absent, Today, OtherDay, ""}, f \in BOOLEAN : get_stats(d, f)
  \/ \E w \in RequestIds : delete_worker(w, "none")

SpecStats == InitStats /\ [][NextStats]_vars

\* The worker registry over every table it may find.
InitRegistry == InitWith(PreExisting)

NextRegistry ==
  \/ \E n \in Names \cup {Absent}, f \in AddWorkerFailPoints : add_worker(n, f)
  \/ \E w \in RequestIds \cup {"abc", "5"}, f \in DeleteFailPoints : delete_worker(w, f)
  \/ \E w \in RequestIds \cup {"abc", "", Absent}, f \in BOOLEAN : precheck(w, f)
  \/ \E f \in BOOLEAN : get_workers(f)
  \/ \E w \in RequestIds, f \in BOOLEAN : manual_mark(w, Mark(Absent, Absent), f)

SpecRegistry == InitRegistry /\ [][NextRegistry]_vars

\* Registrations interleaved at the granularity of their database calls.
NextConc ==
  \/ \E p \in Procs, n \in {"Asha", "Bo"} : AddWorkerSelect(p, n)
  \/ \E p \in Procs : AddWorkerInsert(p)

SpecConc == InitRegistry /\ [][NextConc]_vars

(***************************************************************************)
(* Properties.                                                             *)
(***************************************************************************)
\* the rows a step inserts
Inserted == attendance' \ attendance

\* C1: a /verify request that answers (no external call raised) follows the reply:
\* NO_WORKER in it gives RETRY and inserts nothing; otherwise PPE_OK in it inserts
\* exactly one PRESENT/PASSED row with no missing items; otherwise exactly one
\* ABSENT/FAILED row whose missing items are the reply without "PPE_MISSING:", trimmed.
C1_VerifyFollowsReply ==
  [][ (last'.op = "verify" /\ last'.status # "ERROR") =>
        LET reply == last'.ai_result IN
        IF Contains("NO_WORKER", reply)
        THEN last'.status = "RETRY" /\ attendance' = attendance
        ELSE /\ Cardinality(Inserted) = 1
             /\ \A r \in attendance : r \in attendance'
             /\ \A r \in Inserted :
                  /\ r.worker_id = last'.worker_id
                  /\ IF Contains("PPE_OK", reply)
                     THEN /\ r.attendance_status = "PRESENT"
                          /\ r.ppe_status = "PASSED"
                          /\ r.ppe_missing_items = ""
                          /\ last'.status = "PRESENT"
                     ELSE /\ r.attendance_status = "ABSENT"
                          /\ r.ppe_status = "FAILED"
                          /\ r.ppe_missing_items = PyStrip(PyReplace(reply, "PPE_MISSING:", ""))
                          /\ reply = "PPE_MISSING: [VEST]" => r.ppe_missing_items = "[VEST]"
                          /\ last'.status = "ABSENT" ]_vars

C1_Witness ==
  /\ last.op = "verify" /\ last.status = "ABSENT"
  /\ last.ai_result = "PPE_MISSING: [HELMET, VEST]"
  /\ \E r \in attendance : r.created_at = last.at /\ r.ppe_missing_items = "[HELMET, VEST]"

\* the ids of a result set that int() accepts, as integers
ParsedSet(res_data) ==
  {PyInt(res_data[i].worker_id).val : i \in {j \in DOMAIN res_data : PyInt(res_data[j].worker_id).ok}}

SetMax(S) == CHOOSE m \in S : \A x \in S : x <= m

IdSet(res_data) == {res_data[i].worker_id : i \in DOMAIN res_data}

Registered == last.op = "add_worker" /\ last.status = "ok"

\* C2: a registration that succeeds assigns str(m + 1), m the largest existing id that
\* parses as an integer, or "1001" when none parses, and inserts that row; so a
\* registry holding exactly 1001..1000+k gets 1001+k next, and {1001, "abc", 1005}
\* gets 1006.
C2_NextIdIsMaxPlusOne ==
  Registered =>
    LET P == ParsedSet(last.res_data)
        ids == IdSet(last.res_data)
    IN /\ last.worker_id = IF P = {} THEN "1001" ELSE PyStr(SetMax(P) + 1)
       /\ workers[Len(workers)] = [worker_id |-> last.worker_id, name |-> last.name]
       /\ ids = {"1001", "abc", "1005"} => last.worker_id = "1006"
       /\ \A k \in 0..(MaxRegs + 1) :
            (Len(last.res_data) = k /\ ids = {PyStr(1000 + j) : j \in 1..k})
              => last.worker_id = PyStr(1001 + k)

C2_Witness ==
  /\ Registered
  /\ IdSet(last.res_data) = {"1001", "abc", "1005"}
  /\ last.worker_id = "1006"

\* the rows of a worker on a date, and the one written last
RowsOf(w, D) == {r \in attendance : r.worker_id = w /\ r.date = D}

CurrentStatus(w, D) ==
  (CHOOSE r \in RowsOf(w, D) : \A q \in RowsOf(w, D) : q.created_at <= r.created_at).attendance_status

Counted(D, status) ==
  {w \in {r.worker_id : r \in attendance} : RowsOf(w, D) # {} /\ CurrentStatus(w, D) = status}

\* C3: /api/stats for a date D answers present = the number of worker ids whose latest
\* row dated D is PRESENT, absent = the same for ABSENT, and total_workers = the number
\* of Worker rows whatever D is; no row dated D gives 0 and 0.
C3_StatsCountLatestStatus ==
  (last.op = "get_stats" /\ last.status = "ok") =>
    /\ last.present = Cardinality(Counted(last.date, "PRESENT"))
    /\ last.absent = Cardinality(Counted(last.date, "ABSENT"))
    /\ Counted(last.date, "PRESENT") \cap Counted(last.date, "ABSENT") = {}
    /\ last.total_workers = Len(workers)
    /\ (\A r \in attendance : r.date # last.date) => (last.present = 0 /\ last.absent = 0)

C3_Witness ==
  /\ last.op = "get_stats" /\ last.status = "ok"
  /\ \E r, q \in RowsOf("1001", last.date) :
       /\ r.created_at < q.created_at
       /\ r.attendance_status = "PRESENT" /\ q.attendance_status = "ABSENT"
  /\ Cardinality(RowsOf("1001", last.date)) = 2
  /\ last.present = 0 /\ last.absent = 1

Removed == last.op = "delete_worker" /\ last.status = "ok"

\* C4: once DELETE /api/workers/{worker_id} has answered ok, no attendance row and no
\* Worker row carries that worker_id, and precheck for it answers NOT_FOUND.
C4_RemoveLeavesNothing ==
  Removed =>
    /\ \A r \in attendance : r.worker_id # last.worker_id
    /\ \A i \in DOMAIN workers : workers[i].worker_id # last.worker_id
    /\ PrecheckResponse(workers, last.worker_id).status = "NOT_FOUND"

C4_Witness == Removed /\ last.deleted >= 1 /\ last.worker_id = "1002"

\* C5 as claimed: every persisted row with non-empty ppe_missing_items is ABSENT,
\* whichever entry mode wrote it.
C5_MissingOnlyWhenAbsent ==
  \A r \in attendance : r.ppe_missing_items # "" => r.attendance_status = "ABSENT"

\* C5 as amended: every row written by the automatic /verify (ppe_status PASSED or
\* FAILED) with non-empty ppe_missing_items is ABSENT; the rows of /manual-upload and
\* /api/manual-mark always carry their fixed note, whatever the status.
C5_MissingOnlyWhenAbsentAutomatic ==
  \A r \in attendance :
    /\ (r.ppe_status \in {"PASSED", "FAILED"} /\ r.ppe_missing_items # "")
         => r.attendance_status = "ABSENT"
    /\ r.ppe_status = "MANUAL_VERIFIED"
         => (r.attendance_status = "PRESENT" /\ r.ppe_missing_items = "Manual Override Confirmed")
    /\ r.ppe_status = "ADMIN_OVERRIDE"
         => r.ppe_missing_items = "Marked " \o r.attendance_status \o " by Admin"

C5_Witness ==
  /\ \E r \in attendance : r.ppe_status = "FAILED" /\ r.ppe_missing_items = "[VEST]"
  /\ \E r \in attendance : r.ppe_status = "MANUAL_VERIFIED"

\* C6: an attendance row once inserted is never modified, and it leaves the table only
\* through delete_worker's cascade for its own worker_id; every other request leaves
\* all existing rows as they are.
C6_AppendOnly ==
  [][ \A r \in attendance :
        r \in attendance' \/ (last'.op = "delete_worker" /\ r.worker_id = last'.worker_id) ]_vars

C6_Witness == Removed /\ last.deleted >= 1 /\ attendance # {}

\* C7: no two Worker rows share a worker_id, under any interleaving of registrations.
C7_UniqueWorkerIds ==
  \A i, j \in DOMAIN workers : i # j => workers[i].worker_id # workers[j].worker_id

\* C8: once a /verify or /manual-upload request has finished, with any outcome, the
\* image it uploaded is gone from object storage (unless the storage delete call
\* itself raised).
C8_NoImageRetained ==
  (last.op \in {"verify", "manual_upload"} /\ last.fail # "remove")
    => last.file_name \notin storage

\* C9: when the classifier call raises, verify_ppe_with_gemini returns "ERROR_GEMINI",
\* the request inserts no PRESENT row, and when it answers it has inserted exactly one
\* ABSENT/FAILED row.
C9_ClassifierErrorNeverPresent ==
  [][ (last'.op = "verify" /\ last'.raised) =>
        /\ last'.ai_result = "ERROR_GEMINI"
        /\ \A r \in Inserted : r.attendance_status # "PRESENT"
        /\ last'.status # "ERROR" =>
             /\ last'.status = "ABSENT"
             /\ Cardinality(Inserted) = 1
             /\ \A r \in Inserted : r.attendance_status = "ABSENT" /\ r.ppe_status = "FAILED" ]_vars

C9_Witness ==
  /\ last.op = "verify" /\ last.raised /\ last.status = "ABSENT"
  /\ \E r \in attendance : r.created_at = last.at /\ r.ppe_missing_items = "ERROR_GEMINI"

\* s is the decimal string str() gives for an integer
IsDecimal(s) == PyInt(s).ok /\ PyStr(PyInt(s).val) = s

\* C10 as claimed: every id a registration inserts is the decimal string of an integer
\* >= 1001, whatever the table held.
C10_IdAtLeast1001 ==
  Registered => (IsDecimal(last.worker_id) /\ PyInt(last.worker_id).val >= 1001)

\* C10 as amended: every id a registration inserts is the decimal string of an integer,
\* and it is >= 1001 exactly when no existing id parses as an integer or the largest
\* one that parses is >= 1000.
C10_IdAtLeast1001UnlessSmallerIds ==
  Registered =>
    LET P == ParsedSet(last.res_data) IN
    /\ IsDecimal(last.worker_id)
    /\ PyInt(last.worker_id).val >= 1001 <=> (P = {} \/ SetMax(P) >= 1000)

C10_Witness ==
  /\ Registered
  /\ IdSet(last.res_data) = {"5"}
  /\ last.worker_id = "6"
====
